---------------------------- MODULE Spec2Model ----------------------------
(* Model of package derrors (src/derrors.go): Wrap, WrapStack, StackError.  *)
(* Error values live in a heap of immutable nodes; an error is a reference  *)
(* (index) into the heap, Nil being the nil error.  Each caller owns one    *)
(* error slot (the named result `err` whose address is passed as errp).     *)
EXTENDS Naturals, Sequences, FiniteSets, TLC

\* ------------------------------------------------------------------ bounds

\* Total number of Wrap/WrapStack calls explored, over all slots.
MaxCalls == 3

\* The error slots (one per caller); two, so that calls interleave.
Slots == {1, 2}

\* Lengths, in bytes, of the stack text the runtime has to offer at a capture.
StackTexts == {0, 16 * 1024, 16 * 1024 + 1}

\* The stack text length behind a StackError that arrives from the caller.
OriginStackText == 20000

\* (format, args) pairs the callers pass.  A format is a sequence of literal
\* pieces and "%s" verbs.
Calls ==
  { [format |-> <<"open(", "%s", ")">>, args |-> <<"a.txt">>],
    [format |-> <<"load config">>,       args |-> <<>>] }

\* The kinds of origin a slot starts with: no error, an error rendering as
\* "file not found", one rendering as "", and a StackError the caller made
\* with NewStackError around "file not found".
Origins == {"nil", "plain", "empty", "stack"}

\* ----------------------------------------------------------- error values

Nil == 0

\* var buf [16 * 1024]byte
StackBufLen == 16 * 1024

Min(a, b) == IF a <= b THEN a ELSE b

\* errors.New(msg): an error with a rendering and nothing to unwrap.
ErrorString(msg) ==
  [kind |-> "errorString", msg |-> msg, err |-> Nil, Stack |-> 0]

\* fmt.Sprintf(format, args...) for formats made of literals and %s verbs.
RECURSIVE SprintfFrom(_, _, _)
SprintfFrom(format, args, used) ==
  IF format = <<>>
    THEN IF used < Len(args)
           THEN "%!(EXTRA string=" \o args[used + 1] \o ")"
           ELSE ""
    ELSE IF Head(format) = "%s"
           THEN (IF used < Len(args) THEN args[used + 1] ELSE "%!s(MISSING)")
                \o SprintfFrom(Tail(format), args, used + 1)
           ELSE Head(format) \o SprintfFrom(Tail(format), args, used)

Sprintf(format, args) == SprintfFrom(format, args, 0)

RECURSIVE Error(_, _)

\* The rendering with the trace appended to the message.
StackError_Error_withTrace(h, e) ==
  Error(h, h[e].err) \o "\n" \o ToString(h[e].Stack)

\* func (e *StackError) Error() string
StackError_Error(h, e) == Error(h, h[e].err)

\* err.Error(): the rendering of error e in heap h.
Error(h, e) ==
  IF h[e].kind = "StackError" THEN StackError_Error(h, e) ELSE h[e].msg

\* A StackError that offers nothing to unwrap.
StackError_Unwrap_none(h, e) == Nil

\* func (e *StackError) Unwrap() error
StackError_Unwrap(h, e) == h[e].err

\* errors.Unwrap(e): the directly wrapped error, Nil when there is none.
Unwrap(h, e) ==
  CASE h[e].kind = "StackError" -> StackError_Unwrap(h, e)
    [] h[e].kind = "wrapError"  -> h[e].err
    [] OTHER                    -> Nil

RECURSIVE AsStackError(_, _)

\* A type assertion on the outermost error only, without the chain walk.
AsStackError_outermost(h, e) == e # Nil /\ h[e].kind = "StackError"

\* errors.As(err, &se) with se of type *StackError: walks the Unwrap chain.
AsStackError(h, e) ==
  IF e = Nil THEN FALSE
  ELSE IF h[e].kind = "StackError" THEN TRUE
  ELSE AsStackError(h, Unwrap(h, e))

\* A capture that is not limited by the buffer.
runtime_Stack_unbounded(buflen, text) == text

\* n := runtime.Stack(buf[:], false): bytes written into a buffer of buflen
\* bytes when the stack text is `text` bytes long.
runtime_Stack(buflen, text) == Min(buflen, text)

\* --------------------------------------------------------------- operations
\* The operations work on a world w = [heap, walks]: the error nodes
\* allocated so far and the log of stack walks performed (one record per
\* runtime.Stack call: the StackError it filled, the error it wraps and the
\* length of the stack text at that moment).  They return the new world and
\* the resulting error reference.

Alloc(w, node) == [w EXCEPT !.heap = Append(w.heap, node)]

\* func NewStackError(err error) *StackError
NewStackError(w, err, text) ==
  LET node == [kind  |-> "StackError", msg |-> "", err |-> err,
               Stack |-> runtime_Stack(StackBufLen, text)]
      id   == Len(w.heap) + 1
  IN  [w   |-> [heap  |-> Append(w.heap, node),
                walks |-> Append(w.walks,
                                 [node |-> id, inner |-> err, text |-> text])],
       err |-> id]

\* fmt.Errorf("%s: %v", msg, err): the same text, with nothing to unwrap.
Errorf_v(h, msg, err) == ErrorString(msg \o ": " \o Error(h, err))

\* fmt.Errorf("%s: %w", msg, err): a wrapError holding the text computed now.
Errorf(h, msg, err) ==
  [kind |-> "wrapError", msg |-> msg \o ": " \o Error(h, err),
   err |-> err, Stack |-> 0]

\* Wrap that rewrites the message of the existing error instead of
\* allocating a new one.
Wrap_inPlace(w, e, c) ==
  IF e # Nil
    THEN [w   |-> [w EXCEPT !.heap[e].msg =
                     Sprintf(c.format, c.args) \o ": " \o Error(w.heap, e)],
          err |-> e]
    ELSE [w |-> w, err |-> e]

\* Wrap with the two operands of Errorf exchanged ("%w: %s").
Wrap_swapped(w, e, c) ==
  IF e # Nil
    THEN [w   |-> Alloc(w, [kind |-> "wrapError",
                            msg  |-> Error(w.heap, e) \o ": "
                                       \o Sprintf(c.format, c.args),
                            err  |-> e, Stack |-> 0]),
          err |-> Len(w.heap) + 1]
    ELSE [w |-> w, err |-> e]

\* Wrap without the nil test: Errorf renders a nil %w operand as %!w(<nil>).
Wrap_noNilCheck(w, e, c) ==
  IF e # Nil
    THEN [w   |-> Alloc(w, Errorf(w.heap, Sprintf(c.format, c.args), e)),
          err |-> Len(w.heap) + 1]
    ELSE [w   |-> Alloc(w, ErrorString(Sprintf(c.format, c.args)
                                         \o ": %!w(<nil>)")),
          err |-> Len(w.heap) + 1]

\* func Wrap(errp *error, format string, args ...interface{})
Wrap(w, e, c) ==
  IF e # Nil
    THEN [w   |-> Alloc(w, Errorf(w.heap, Sprintf(c.format, c.args), e)),
          err |-> Len(w.heap) + 1]
    ELSE [w |-> w, err |-> e]

\* WrapStack that captures a trace at every call, without the chain scan.
WrapStack_always(w, e, c, text) ==
  IF e # Nil
    THEN LET s == NewStackError(w, e, text) IN Wrap(s.w, s.err, c)
    ELSE [w |-> w, err |-> e]

\* WrapStack that adds its message only when it captured no trace.
WrapStack_elseWrap(w, e, c, text) ==
  IF e # Nil
    THEN IF ~AsStackError(w.heap, e)
           THEN NewStackError(w, e, text)
           ELSE Wrap(w, e, c)
    ELSE [w |-> w, err |-> e]

\* func WrapStack(errp *error, format string, args ...interface{})
WrapStack(w, e, c, text) ==
  IF e # Nil
    THEN LET s == IF ~AsStackError(w.heap, e)
                    THEN NewStackError(w, e, text)
                    ELSE [w |-> w, err |-> e]
         IN  Wrap(s.w, s.err, c)
    ELSE [w |-> w, err |-> e]

\* ------------------------------------------------------------------- state

VARIABLES
  heap,    \* the error nodes allocated so far, never modified
  walks,   \* log of the stack walks performed
  slots,   \* slots[s]: the error in caller s's result variable, or Nil
  orig,    \* orig[s]: the error slot s held before any annotation
  hist     \* hist[s]: the annotation calls made on slot s, oldest first

vars == <<heap, walks, slots, orig, hist>>

World == [heap |-> heap, walks |-> walks]

\* The original error of one slot, allocated in world w.
Origin(w, kind) ==
  CASE kind = "nil"   -> [w |-> w, err |-> Nil]
    [] kind = "plain" -> [w   |-> Alloc(w, ErrorString("file not found")),
                          err |-> Len(w.heap) + 1]
    [] kind = "empty" -> [w   |-> Alloc(w, ErrorString("")),
                          err |-> Len(w.heap) + 1]
    [] kind = "stack" -> NewStackError(Alloc(w, ErrorString("file not found")),
                                       Len(w.heap) + 1, OriginStackText)

\* The worlds after slot 1's, then slot 2's original error is created.
Origin1(k) == Origin([heap |-> <<>>, walks |-> <<>>], k[1])
Origin2(k) == Origin(Origin1(k).w, k[2])

Init ==
  \E k \in [Slots -> Origins] :
    /\ heap  = Origin2(k).w.heap
    /\ walks = Origin2(k).w.walks
    /\ slots = [s \in Slots |-> IF s = 1 THEN Origin1(k).err ELSE Origin2(k).err]
    /\ orig  = slots
    /\ hist  = [s \in Slots |-> <<>>]

TotalCalls == Len(hist[1]) + Len(hist[2])

\* The record of one call: what the slot held before and after, how many
\* nodes and stack walks the call added, and the stack text it captured.
Record(op, c, before, r, text) ==
  [op     |-> op, call |-> c, before |-> before, after |-> r.err,
   nodes  |-> Len(r.w.heap) - Len(heap),
   walked |-> Len(r.w.walks) - Len(walks),
   text   |-> IF Len(r.w.walks) > Len(walks) THEN text ELSE 0]

Commit(s, op, c, r, text) ==
  /\ heap'  = r.w.heap
  /\ walks' = r.w.walks
  /\ slots' = [slots EXCEPT ![s] = r.err]
  /\ hist'  = [hist EXCEPT ![s] = Append(@, Record(op, c, slots[s], r, text))]
  /\ UNCHANGED orig

\* defer derrors.Wrap(&err, format, args...) running in caller s.
WrapCall(s) ==
  /\ TotalCalls < MaxCalls
  /\ \E c \in Calls : Commit(s, "Wrap", c, Wrap(World, slots[s], c), 0)

\* defer derrors.WrapStack(&err, format, args...) running in caller s.
WrapStackCall(s) ==
  /\ TotalCalls < MaxCalls
  /\ \E c \in Calls : \E text \in StackTexts :
       Commit(s, "WrapStack", c, WrapStack(World, slots[s], c, text), text)

Next == \E s \in Slots : WrapCall(s) \/ WrapStackCall(s)

Spec == Init /\ [][Next]_vars

\* ------------------------------------------------- observations of a chain

RECURSIVE Chain(_, _)
\* The references met by repeatedly unwrapping e, outermost first.
Chain(h, e) == IF e = Nil THEN <<>> ELSE <<e>> \o Chain(h, Unwrap(h, e))

Range(q) == {q[i] : i \in 1..Len(q)}

\* The StackError nodes of e's wrap chain.
StackNodes(h, e) == {n \in Range(Chain(h, e)) : h[n].kind = "StackError"}

CountStack(h, e) == Cardinality(StackNodes(h, e))

\* The message Wrap is documented to produce for call c on an error
\* rendering as old.
Annotated(c, old) == Sprintf(c.format, c.args) \o ": " \o old

\* All calls recorded, on any slot.
AllCalls == UNION {Range(hist[s]) : s \in Slots}

\* ------------------------------------------------------------------ claims

OnlyWrapStack(s) ==
  /\ hist[s] # <<>>
  /\ \A i \in 1..Len(hist[s]) : hist[s][i].op = "WrapStack"

\* C1: starting from a non-nil error whose chain holds no StackError, after
\* one or more WrapStack calls on the slot (and no other call) the chain
\* holds exactly one StackError.
C1_ExactlyOneStackError ==
  \A s \in Slots :
    (orig[s] # Nil /\ CountStack(heap, orig[s]) = 0 /\ OnlyWrapStack(s))
      => CountStack(heap, slots[s]) = 1

\* Three WrapStack calls in succession on a plain error, one StackError.
C1_Witness ==
  \E s \in Slots :
    /\ orig[s] # Nil /\ CountStack(heap, orig[s]) = 0
    /\ OnlyWrapStack(s) /\ Len(hist[s]) = 3
    /\ CountStack(heap, slots[s]) = 1

\* C2: after any sequence of Wrap and WrapStack calls on a slot that held a
\* non-nil original error, repeated unwrapping of the slot's error reaches
\* that very error (the same reference).
C2_UnwrapFidelity ==
  \A s \in Slots :
    orig[s] # Nil =>
      /\ slots[s] # Nil
      /\ orig[s] \in Range(Chain(heap, slots[s]))

\* A chain built by both operations, with a capture, that still ends in the
\* original error.
C2_Witness ==
  \E s \in Slots :
    /\ orig[s] # Nil
    /\ \E i, j \in 1..Len(hist[s]) :
         /\ hist[s][i].op = "Wrap"
         /\ hist[s][j].op = "WrapStack" /\ hist[s][j].walked = 1
    /\ Len(Chain(heap, slots[s])) >= 4
    /\ orig[s] \in Range(Chain(heap, slots[s]))

\* The calls of the message-chaining example.
OpenCall == [format |-> <<"open(", "%s", ")">>, args |-> <<"a.txt">>]
LoadCall == [format |-> <<"load config">>, args |-> <<>>]

WrappedOpenThenLoad(s) ==
  /\ orig[s] # Nil /\ Error(heap, orig[s]) = "file not found"
  /\ Len(hist[s]) = 2
  /\ hist[s][1].op = "Wrap" /\ hist[s][1].call = OpenCall
  /\ hist[s][2].op = "Wrap" /\ hist[s][2].call = LoadCall

\* C3: Wrap on a non-nil error e with formatted message m leaves a new error
\* that renders as m, ": ", e's rendering and unwraps directly to e; applied
\* twice to "file not found" it gives
\* "load config: open(a.txt): file not found".
C3_WrapMessage ==
  /\ \A r \in AllCalls :
       (r.op = "Wrap" /\ r.before # Nil) =>
         /\ r.after \notin {Nil, r.before}
         /\ Error(heap, r.after) = Annotated(r.call, Error(heap, r.before))
         /\ Unwrap(heap, r.after) = r.before
  /\ \A s \in Slots :
       WrappedOpenThenLoad(s) =>
         /\ Error(heap, hist[s][1].after) = "open(a.txt): file not found"
         /\ Error(heap, slots[s]) = "load config: open(a.txt): file not found"

C3_Witness ==
  \E s \in Slots :
    /\ WrappedOpenThenLoad(s)
    /\ Error(heap, slots[s]) = "load config: open(a.txt): file not found"

\* C4: a Wrap or WrapStack call on a nil error leaves the slot nil, creates
\* no error node and walks no stack.
C4_NilNoOp ==
  /\ \A r \in AllCalls :
       r.before = Nil => (r.after = Nil /\ r.nodes = 0 /\ r.walked = 0)
  /\ \A s \in Slots : orig[s] = Nil => slots[s] = Nil

\* Both operations were called on a nil slot, which is still nil.
C4_Witness ==
  \E s \in Slots :
    /\ slots[s] = Nil
    /\ \E i, j \in 1..Len(hist[s]) :
         /\ hist[s][i].op = "Wrap" /\ hist[s][i].before = Nil
         /\ hist[s][j].op = "WrapStack" /\ hist[s][j].before = Nil

\* The world before any annotation call: the original errors only.
InitialWorld ==
  LET n0 == IF orig[1] >= orig[2] THEN orig[1] ELSE orig[2]
  IN  [heap  |-> SubSeq(heap, 1, n0),
       walks |-> SelectSeq(walks, LAMBDA k : k.node <= n0)]

RECURSIVE Replay(_, _, _, _)
\* The calls recorded in q made one after another on error e in world w;
\* with plain, every one of them is made as a Wrap call.
Replay(w, e, q, plain) ==
  IF q = <<>>
    THEN [w |-> w, err |-> e]
    ELSE LET r == IF plain \/ Head(q).op = "Wrap"
                    THEN Wrap(w, e, Head(q).call)
                    ELSE WrapStack(w, e, Head(q).call, Head(q).text)
         IN  Replay(r.w, r.err, Tail(q), plain)

\* What slot s holds when its calls are the only ones made.
Alone(s) == Replay(InitialWorld, orig[s], hist[s], FALSE)

\* What slot s holds when its calls are the only ones made, all as Wrap.
AllWrap(s) == Replay(InitialWorld, orig[s], hist[s], TRUE)

\* The nodes of e's chain, outermost first, without their references.
View(h, e) ==
  [i \in 1..Len(Chain(h, e)) |->
     LET n == h[Chain(h, e)[i]]
     IN  [kind |-> n.kind, msg |-> n.msg, Stack |-> n.Stack]]

\* A view without its StackError nodes.
NoStack(v) == SelectSeq(v, LAMBDA n : n.kind # "StackError")

\* C5: the rendering does not depend on which annotation was used: a slot
\* renders as it would had every call been a Wrap call, every WrapStack call
\* prepends its message, and the two chains differ only by StackError nodes
\* (at most one more).
C5_SameRendering ==
  /\ \A s \in Slots :
       orig[s] # Nil =>
         LET p == AllWrap(s)
         IN  /\ Error(heap, slots[s]) = Error(p.w.heap, p.err)
             /\ NoStack(View(heap, slots[s])) = NoStack(View(p.w.heap, p.err))
             /\ CountStack(heap, slots[s]) - CountStack(p.w.heap, p.err)
                  \in {0, 1}
  /\ \A r \in AllCalls :
       (r.op = "WrapStack" /\ r.before # Nil) =>
         Error(heap, r.after) = Annotated(r.call, Error(heap, r.before))

\* WrapStack (capturing) then Wrap renders as Wrap then Wrap, with a
\* StackError in the chain.
C5_Witness ==
  \E s \in Slots :
    /\ orig[s] # Nil /\ Len(hist[s]) = 2
    /\ hist[s][1].op = "WrapStack" /\ hist[s][1].walked = 1
    /\ hist[s][2].op = "Wrap"
    /\ Error(heap, slots[s]) = Error(AllWrap(s).w.heap, AllWrap(s).err)
    /\ CountStack(heap, slots[s]) = 1
    /\ CountStack(AllWrap(s).w.heap, AllWrap(s).err) = 0

\* C6: on an error that arrives without a StackError, the one stack
\* snapshot is taken by the first WrapStack call: that call and no other
\* walks the stack, the StackError directly wraps the error the slot held at
\* that call, it is still the chain's only StackError with the trace taken
\* then, and every WrapStack call adds its message.
C6_CaptureAtFirstWrapStack ==
  \A s \in Slots :
    (orig[s] # Nil /\ CountStack(heap, orig[s]) = 0) =>
      \A i \in 1..Len(hist[s]) :
        LET r     == hist[s][i]
            first == /\ r.op = "WrapStack"
                     /\ \A j \in 1..(i - 1) : hist[s][j].op # "WrapStack"
        IN  /\ r.walked = (IF first THEN 1 ELSE 0)
            /\ r.op = "WrapStack" =>
                 Error(heap, r.after) = Annotated(r.call, Error(heap, r.before))
            /\ first =>
                 LET n == Unwrap(heap, r.after)
                 IN  /\ heap[n].kind = "StackError"
                     /\ heap[n].err = r.before
                     /\ heap[n].Stack = Min(r.text, 16 * 1024)
                     /\ StackNodes(heap, slots[s]) = {n}

\* Wrap, then two WrapStack calls: the StackError wraps the error as the
\* first of them found it, which is no longer the original.
C6_Witness ==
  \E s \in Slots :
    /\ orig[s] # Nil /\ CountStack(heap, orig[s]) = 0
    /\ Len(hist[s]) = 3
    /\ hist[s][1].op = "Wrap"
    /\ hist[s][2].op = "WrapStack" /\ hist[s][2].walked = 1
    /\ hist[s][3].op = "WrapStack" /\ hist[s][3].walked = 0
    /\ \E n \in StackNodes(heap, slots[s]) :
         heap[n].err = hist[s][2].before /\ heap[n].err # orig[s]

\* C7: every StackError made by NewStackError(inner), inner not nil, renders
\* exactly as inner does and unwraps to inner.
C7_StackErrorTransparent ==
  \A i \in 1..Len(walks) :
    LET k == walks[i]
    IN  k.inner # Nil =>
          /\ heap[k.node].kind = "StackError"
          /\ Error(heap, k.node) = Error(heap, k.inner)
          /\ Unwrap(heap, k.node) = k.inner

\* A StackError with an empty trace around an error with an empty message,
\* and one with a full trace around a non-empty message.
C7_Witness ==
  /\ \E i \in 1..Len(walks) :
       /\ heap[walks[i].node].Stack = 0
       /\ Error(heap, walks[i].inner) = ""
       /\ Error(heap, walks[i].node) = ""
  /\ \E i \in 1..Len(walks) :
       /\ heap[walks[i].node].Stack > 0
       /\ Error(heap, walks[i].node) = "file not found"

\* C8: the trace a StackError stores is the stack text cut to 16384 bytes:
\* its length is min(text length, 16384), never more than 16384.
C8_TraceBound ==
  \A i \in 1..Len(walks) :
    /\ heap[walks[i].node].Stack = Min(walks[i].text, 16384)
    /\ heap[walks[i].node].Stack <= 16384

\* A trace cut to the limit by a WrapStack call, and an empty one.
C8_Witness ==
  /\ \E r \in AllCalls :
       /\ r.walked = 1 /\ r.text > 16384
       /\ heap[Unwrap(heap, r.after)].Stack = 16384
  /\ \E i \in 1..Len(walks) :
       walks[i].text = 0 /\ heap[walks[i].node].Stack = 0

\* Every slot holds what its own calls, made alone, would have left.
AloneResult ==
  \A s \in Slots :
    View(heap, slots[s]) = View(Alone(s).w.heap, Alone(s).err)

\* One call's effect: the existing nodes and stack-walk records are as they
\* were and at most one slot has changed.
FrameStep ==
  /\ Len(heap') >= Len(heap)
  /\ \A n \in 1..Len(heap) : heap'[n] = heap[n]
  /\ Len(walks') >= Len(walks)
  /\ \A n \in 1..Len(walks) : walks'[n] = walks[n]
  /\ \E s \in Slots : \A t \in Slots \ {s} : slots'[t] = slots[t]

\* C9: a Wrap or WrapStack call changes nothing but the slot it is passed:
\* existing error nodes keep their rendering, unwrap target and trace, the
\* other slots are unchanged, and interleaved calls on distinct slots give
\* each slot the result its own calls give alone.
C9_OnlyTheSlot == [][FrameStep]_vars /\ []AloneResult

\* Calls on the two slots interleaved: a node of slot 2's chain was
\* allocated between two nodes that calls added to slot 1's chain.
C9_Witness ==
  /\ orig[1] # Nil /\ orig[2] # Nil
  /\ \E a, c \in Range(Chain(heap, slots[1])) :
       \E b \in Range(Chain(heap, slots[2])) :
         /\ orig[2] < a /\ a < b /\ b < c
  /\ AloneResult

\* C10: no call lowers the number of StackErrors in the chain; Wrap adds one
\* node and no StackError; WrapStack adds a StackError, and two nodes, when
\* the chain it scans holds none at any depth, and one node otherwise; so a
\* chain that starts with at most one StackError never holds more.
C10_StackCount ==
  /\ \A r \in AllCalls :
       r.before # Nil =>
         LET c0 == CountStack(heap, r.before)
             c1 == CountStack(heap, r.after)
             l0 == Len(Chain(heap, r.before))
             l1 == Len(Chain(heap, r.after))
         IN  /\ c1 >= c0
             /\ r.op = "Wrap" => (c1 = c0 /\ l1 = l0 + 1)
             /\ r.op = "WrapStack" =>
                  IF c0 = 0
                    THEN c1 = 1 /\ l1 = l0 + 2 /\ r.walked = 1 /\ r.nodes = 2
                    ELSE c1 = c0 /\ l1 = l0 + 1 /\ r.walked = 0 /\ r.nodes = 1
  /\ \A s \in Slots :
       (orig[s] # Nil /\ CountStack(heap, orig[s]) <= 1) =>
         CountStack(heap, slots[s]) <= 1

\* A capture beneath a node added by Wrap, and a WrapStack call that finds
\* the StackError the incoming error already carried.
C10_Witness ==
  /\ \E r \in AllCalls :
       /\ r.op = "WrapStack" /\ r.walked = 1
       /\ r.before # Nil /\ heap[r.before].kind = "wrapError"
  /\ \E s \in Slots :
       /\ orig[s] # Nil /\ CountStack(heap, orig[s]) = 1
       /\ \E i \in 1..Len(hist[s]) :
            hist[s][i].op = "WrapStack" /\ hist[s][i].walked = 0

=============================================================================
